---- MODULE Spec2Model ----
(***************************************************************************)
(* A model of the coffee_webapp analysis pipeline: process_image of        *)
(* test_bean_cv.py (coarse-blob variant, "bean") and of test_cv.py         *)
(* (fine-dot variant, "dot"), together with the helpers build_lut and      *)
(* apply_lut.                                                              *)
(*                                                                         *)
(* Image contents are inputs: what the ArUco detector returns, what the    *)
(* rectified frame shows at the sampled patches and which connected        *)
(* regions the stage holds are drawn from small sets.  Pixel means, which  *)
(* the program holds as floats, are integers here; every other real        *)
(* number is kept exactly, as a fraction [n, d].                           *)
(***************************************************************************)
EXTENDS Integers, Sequences, FiniteSets, TLC

VARIABLES
    variant,        \* "bean" (test_bean_cv.py) or "dot" (test_cv.py)
    pc,             \* position of process_image
    outcome,        \* how the run ended, "none" while it runs
    dir_exists,     \* os.path.exists(output_dir) at entry
    img_ok,         \* cv2.imread returned an image (img is not None)
    ruler_measured_mm,
    detections,     \* detector output: sequence of [id, corners]
    scene,          \* what the rectified frame of this photograph shows
    found_map,      \* required id -> corners of the detection kept for it
    src_pts,        \* the 4 source points of the homography, or << >>
    warped,         \* the rectified frame, or NoFrame
    luts,           \* [b, g, r] tone-curve tables, or NoLuts
    wb,             \* [b, g, r] white-balance gains, or NoGains
    beans,          \* regions kept by detect_beans / detect_all_dots
    beans_data,     \* records measured so far
    csv,            \* rows of the output table, header first; << >> = no file
    csv_writes,     \* how many times the output table was opened for writing
    fs,             \* names of the file-system artifacts this run created
    stages,         \* log of the stages that have completed, in order
    observed,       \* build_lut call under test: first argument
    expected,       \* build_lut call under test: second argument
    lut,            \* build_lut call under test: result, or NoLut
    report,         \* the error message printed, or NoReport
    bw              \* stage mask under test: its foreground pixels

vars == << variant, pc, outcome, dir_exists, img_ok, ruler_measured_mm,
           detections, scene, found_map, src_pts, warped, luts, wb, beans,
           beans_data, csv, csv_writes, fs, stages, observed, expected, lut,
           report, bw >>

pipeVars == << variant, pc, outcome, dir_exists, img_ok, ruler_measured_mm,
               detections, scene, found_map, src_pts, warped, luts, wb, beans,
               beans_data, csv, csv_writes, fs, stages >>

lutVars == << observed, expected, lut >>

(***************************************************************************)
(* Bounds of the model.                                                    *)
(***************************************************************************)
\* longest list of (observed, expected) pairs drawn freely for build_lut
MaxRamp == 3

\* longest detector output drawn freely
MaxDet == 4

\* most candidate regions the segmenter's thresholded mask holds
MaxRegions == 2

(***************************************************************************)
(* Small arithmetic helpers.                                               *)
(***************************************************************************)
Min2(a, b) == IF a <= b THEN a ELSE b

Max2(a, b) == IF a >= b THEN a ELSE b

\* np.clip(val, lo, hi)
Clip(val, lo, hi) == Max2(lo, Min2(val, hi))

RECURSIVE Gcd(_, _)
Gcd(a, b) == IF b = 0 THEN a ELSE Gcd(b, a % b)

\* the fraction n/d (d > 0, n >= 0) in lowest terms
Frac(n, d) == LET g == Gcd(n, d) IN [n |-> n \div g, d |-> d \div g]

(***************************************************************************)
(* Configuration shared by both variants.                                  *)
(***************************************************************************)
\* EXPECTED_LEVELS = [int(255 - (i * (255 - 20) / 10)) for i in range(11)]
EXPECTED_LEVELS == [k \in 1..11 |-> (2550 - (k - 1) * (255 - 20)) \div 10]

(***************************************************************************)
(* build_lut and apply_lut.                                                *)
(***************************************************************************)
NoLut == [v \in {} |-> 0]

\* zip(observed, expected): pairs up to the shorter of the two lists
Zip(obs, exp) ==
    [k \in 1..Min2(Len(obs), Len(exp)) |-> [x |-> obs[k], y |-> exp[k]]]

\* insert p after every element whose key is <= p.x (sorted() is stable)
RECURSIVE InsertPoint(_, _)
InsertPoint(p, s) ==
    IF s = << >> THEN << p >>
    ELSE IF p.x < Head(s).x THEN << p >> \o s
    ELSE << Head(s) >> \o InsertPoint(p, Tail(s))

RECURSIVE SortFrom(_, _)
SortFrom(pts, acc) ==
    IF pts = << >> THEN acc
    ELSE SortFrom(Tail(pts), InsertPoint(Head(pts), acc))

\* a build_lut that forgets to sort the pairs
SortPointsUnsorted(pts) == pts

\* sorted(zip(observed, expected), key=lambda x: x[0])
SortPoints(pts) == SortFrom(pts, << >>)

\* numpy's binary_search_with_guess: the largest j with xp[j] <= x,
\* 0 when x < xp[1], Len(xp) + 1 when x > xp[Len(xp)]
RECURSIVE SearchFrom(_, _, _)
SearchFrom(x, pts, j) ==
    IF j <= Len(pts) /\ x >= pts[j].x THEN SearchFrom(x, pts, j + 1) ELSE j - 1

SearchIndex(x, pts) ==
    IF x > pts[Len(pts)].x THEN Len(pts) + 1
    ELSE IF x < pts[1].x THEN 0
    ELSE SearchFrom(x, pts, 1)

\* the same interpolation stored in a signed 8-bit table
InterpI8(x, pts) ==
    LET n == Len(pts)
        j == SearchIndex(x, pts)
        y == IF j = 0 THEN pts[1].y
             ELSE IF j >= n THEN pts[n].y
             ELSE IF pts[j].x = x THEN pts[j].y
             ELSE pts[j].y
                  + ((pts[j + 1].y - pts[j].y) * (x - pts[j].x))
                      \div (pts[j + 1].x - pts[j].x)
    IN  ((y + 128) % 256) - 128

\* np.interp(x, x_points, y_points) for one x, followed by .astype(np.uint8)
InterpU8(x, pts) ==
    LET n == Len(pts)
        j == SearchIndex(x, pts)
    IN  IF j = 0 THEN pts[1].y % 256
        ELSE IF j >= n THEN pts[n].y % 256
        ELSE IF pts[j].x = x THEN pts[j].y % 256
        ELSE (pts[j].y
              + ((pts[j + 1].y - pts[j].y) * (x - pts[j].x))
                  \div (pts[j + 1].x - pts[j].x)) % 256

\* build_lut(observed, expected): the table over raw intensities 0..255
build_lut(obs, exp) ==
    LET points == SortPoints(Zip(obs, exp))
    IN  [v \in 0..255 |-> InterpU8(v, points)]

\* apply_lut(val, lut)
apply_lut(val, table) == table[Clip(val, 0, 255)]

(***************************************************************************)
(* Configuration of process_image.                                         *)
(***************************************************************************)
Variants == {"bean", "dot"}

REAL_WIDTH_MM == 180

REAL_HEIGHT_MM == 250

\* SCALE = 6 in test_bean_cv.py, SCALE = 20 in test_cv.py
SCALE(v) == IF v = "bean" THEN 6 ELSE 20

\* the ids the four corner markers carry
RequiredIds == {0, 1, 2, 3}

\* the output table's file name
CsvName(v) == IF v = "bean" THEN "beans.csv" ELSE "particles.csv"

\* fieldnames of the csv.DictWriter
Header(v) ==
    IF v = "bean"
    THEN << "id", "major_mm", "minor_mm", "r", "g", "b", "luma" >>
    ELSE << "id", "major_mm", "minor_mm", "area_px", "r", "g", "b", "luma" >>

(***************************************************************************)
(* Sheet geometry of the analysis (test_bean_cv.py), in millimetres from   *)
(* the top-left outer corner of the reference rectangle, y downwards.      *)
(***************************************************************************)
MARKER_SIZE_MM == 15

GRAY_PATCH_Y_MM == 45

\* [55 + i * 9.5 for i in range(11)], in tenths of a millimetre
GRAY_PATCH_XS_MM == [i \in 0..10 |-> 550 + i * 95]

CMYK_PATCH_Y_MM == 30

CMYK_PATCH_XS_MM == [i \in 0..3 |-> << 106, 120, 134, 148 >>[i + 1]]

STAGE_CENTER_X_MM == 90

STAGE_CENTER_Y_MM == 115

STAGE_RADIUS_MM == 50

(***************************************************************************)
(* Sheet geometry of draw_calibration_sheet (generate_calibration_sheet),  *)
(* in tenths of a millimetre from the bottom-left corner of the reference  *)
(* rectangle (margin_x, margin_y), y upwards as on the PDF page.           *)
(***************************************************************************)
\* the length unit: tenths of a millimetre per millimetre
mm == 10

calib_w == 180 * mm

calib_h == 250 * mm

marker_size == 15 * mm

patch_size == 12 * mm

gap == 2 * mm

patch_start_x == calib_w - (5 * (patch_size + gap)) - 10 * mm

patch_start_y == calib_h - 35 * mm

gray_patch_size == 8 * mm

\* 1.5 * mm
gray_gap == (15 * mm) \div 10

num_steps == 11

gray_row_width == num_steps * gray_patch_size + (num_steps - 1) * gray_gap

cmyk_end_x == patch_start_x + 4 * patch_size + 3 * gap

gray_start_x == cmyk_end_x - gray_row_width

gray_y == patch_start_y - (gray_patch_size + 6 * mm)

\* c.circle(width/2, height/2 + 10*mm, 50*mm): the page centre is the
\* centre of the reference rectangle
stage_circle ==
    [x |-> calib_w \div 2, y |-> calib_h \div 2 + 10 * mm, r |-> 50 * mm]

\* a point of the page in the analysis frame: tenths of a millimetre from
\* the top-left corner, y downwards
FromTopLeft(x, y) == << x, calib_h - y >>

\* centre of printed CMYK patch i (0..3) and of printed gray patch i (0..10)
PrintedCmykCentre(i) ==
    FromTopLeft(patch_start_x + i * (patch_size + gap) + patch_size \div 2,
                patch_start_y + patch_size \div 2)

PrintedGrayCentre(i) ==
    FromTopLeft(gray_start_x + i * (gray_patch_size + gray_gap)
                  + gray_patch_size \div 2,
                gray_y + gray_patch_size \div 2)

(***************************************************************************)
(* Marker detections and the source points of the homography.              *)
(***************************************************************************)
\* corners of a detected marker whose top-left corner is at p, side 1, in
\* the detector's order: top-left, top-right, bottom-right, bottom-left
CornersAt(p) ==
    << p, << p[1] + 1, p[2] >>, << p[1] + 1, p[2] + 1 >>, << p[1], p[2] + 1 >> >>

EmptyMap == [k \in {} |-> << >>]

\* found_map[id_val] = corners[i]
PutCorners(m, k, c) ==
    [x \in (DOMAIN m) \cup {k} |-> IF x = k THEN c ELSE m[x]]

\* a loop that files a detection under its id modulo 4
RECURSIVE OrganizeFromMod4(_, _, _)
OrganizeFromMod4(dets, i, m) ==
    IF i > Len(dets) THEN m
    ELSE OrganizeFromMod4(dets, i + 1,
                          PutCorners(m, dets[i].id % 4, dets[i].corners))

\* the loop "for i, id_val in enumerate(ids)" from detection i on
RECURSIVE OrganizeFrom(_, _, _)
OrganizeFrom(dets, i, m) ==
    IF i > Len(dets) THEN m
    ELSE OrganizeFrom(dets, i + 1,
                      IF dets[i].id \in RequiredIds
                      THEN PutCorners(m, dets[i].id, dets[i].corners)
                      ELSE m)

\* found_map after the loop over all detections
Organize(dets) == OrganizeFrom(dets, 1, EmptyMap)

\* source points that take the first corner of every marker
SrcPtsFirstCorner(m) == << m[0][1], m[1][1], m[2][1], m[3][1] >>

\* dst_pts = [[0, 0], [dst_w, 0], [dst_w, dst_h], [0, dst_h]]
DstPts(v) ==
    LET dst_w == REAL_WIDTH_MM * SCALE(v)
        dst_h == REAL_HEIGHT_MM * SCALE(v)
    IN  << << 0, 0 >>, << dst_w, 0 >>, << dst_w, dst_h >>, << 0, dst_h >> >>

\* src_pts: corner k of the marker with id k (0-based), k = 0..3
SrcPts(m) == << m[0][1], m[1][2], m[2][3], m[3][4] >>

\* twice the signed area of the triangle p, q, r
Cross(p, q, r) ==
    (q[1] - p[1]) * (r[2] - p[2]) - (q[2] - p[2]) * (r[1] - p[1])

\* two of the points coincide, or three of them are collinear
Degenerate(pts) ==
    \/ \E i, j \in DOMAIN pts : i < j /\ pts[i] = pts[j]
    \/ \E i, j, k \in DOMAIN pts :
          i < j /\ j < k /\ Cross(pts[i], pts[j], pts[k]) = 0

(***************************************************************************)
(* Calibration: white-balance gains.                                       *)
(***************************************************************************)
NoFrame == [present |-> FALSE]

NoLuts == [present |-> FALSE]

NoGains == [present |-> FALSE]

\* a gain that aims at white (255) instead of the neutral 128
GainToWhite(c, m, y) ==
    IF c + m + y > 0 THEN Frac(255 * 3, c + m + y) ELSE [n |-> 1, d |-> 1]

\* a gain that divides without looking at the estimate
GainUnguarded(c, m, y) == Frac(128 * 3, c + m + y)

\* target_neutral / neutral_obs with neutral_obs = (c + m + y) / 3.0, or 1.0
Gain(c, m, y) ==
    IF c + m + y > 0 THEN Frac(128 * 3, c + m + y) ELSE [n |-> 1, d |-> 1]

\* wb_factor_b, wb_factor_g, wb_factor_r from cmyk_observed
Gains(cmyk) ==
    [present |-> TRUE,
     b |-> Gain(cmyk.c.b, cmyk.m.b, cmyk.y.b),
     g |-> Gain(cmyk.c.g, cmyk.m.g, cmyk.y.g),
     r |-> Gain(cmyk.c.r, cmyk.m.r, cmyk.y.r)]

\* lut_b, lut_g, lut_r from observed_rgbs
BuildLuts(gray) ==
    [present |-> TRUE,
     b |-> build_lut(gray.b, EXPECTED_LEVELS),
     g |-> build_lut(gray.g, EXPECTED_LEVELS),
     r |-> build_lut(gray.r, EXPECTED_LEVELS)]

(***************************************************************************)
(* Measurement of one region.                                              *)
(***************************************************************************)
\* c * gain with no clip
ScaleNoClip(c, gain) == Frac(c * gain.n, gain.d)

\* the exact value of np.clip(c * gain, 0, 255) for an integer c
ScaleClip(c, gain) ==
    IF c * gain.n > 255 * gain.d THEN [n |-> 255, d |-> 1]
    ELSE Frac(c * gain.n, gain.d)

\* 0.299 * corr_r + 0.587 * corr_g + 0.114 * corr_b
Luma(r, g, b) ==
    Frac(299 * r.n * g.d * b.d + 587 * g.n * r.d * b.d + 114 * b.n * r.d * g.d,
         1000 * r.d * g.d * b.d)

\* a length L in mm, kept as its square: L^2 = n / (d * pi^p)
SqLen(n, d, p) == [n |-> n, d |-> d, p |-> p]

\* a record whose lengths leave the ruler correction out
BeanRecordNoRuler(i, reg, tables, gains, ruler) ==
    LET corr_b == ScaleClip(apply_lut(reg.mean.b, tables.b), gains.b)
        corr_g == ScaleClip(apply_lut(reg.mean.g, tables.g), gains.g)
        corr_r == ScaleClip(apply_lut(reg.mean.r, tables.r), gains.r)
        den    == SCALE("bean") * SCALE("bean")
    IN  [id       |-> i,
         major_mm |-> SqLen(Max2(reg.MA, reg.ma) * Max2(reg.MA, reg.ma), den, 0),
         minor_mm |-> SqLen(Min2(reg.MA, reg.ma) * Min2(reg.MA, reg.ma), den, 0),
         r |-> corr_r, g |-> corr_g, b |-> corr_b,
         luma |-> Luma(corr_r, corr_g, corr_b)]

\* the record process_image of test_bean_cv.py appends for region i (0-based)
BeanRecord(i, reg, tables, gains, ruler) ==
    LET corr_b == ScaleClip(apply_lut(reg.mean.b, tables.b), gains.b)
        corr_g == ScaleClip(apply_lut(reg.mean.g, tables.g), gains.g)
        corr_r == ScaleClip(apply_lut(reg.mean.r, tables.r), gains.r)
        den    == (SCALE("bean") * 100) * (SCALE("bean") * 100)
    IN  [id       |-> i,
         major_mm |-> SqLen((Max2(reg.MA, reg.ma) * ruler)
                              * (Max2(reg.MA, reg.ma) * ruler), den, 0),
         minor_mm |-> SqLen((Min2(reg.MA, reg.ma) * ruler)
                              * (Min2(reg.MA, reg.ma) * ruler), den, 0),
         r |-> corr_r, g |-> corr_g, b |-> corr_b,
         luma |-> Luma(corr_r, corr_g, corr_b)]

\* a dot record whose minor axis is the bare pixel count over SCALE
DotRecordAreaAsMinor(i, reg, tables, ruler) ==
    LET corr_b == [n |-> apply_lut(reg.mean.b, tables.b), d |-> 1]
        corr_g == [n |-> apply_lut(reg.mean.g, tables.g), d |-> 1]
        corr_r == [n |-> apply_lut(reg.mean.r, tables.r), d |-> 1]
        den    == (SCALE("dot") * 100) * (SCALE("dot") * 100)
        diag2  == reg.w * reg.w + reg.h * reg.h
        major  == IF reg.pixels = 1
                  THEN SqLen(4 * reg.pixels * ruler * ruler, den, 1)
                  ELSE SqLen(diag2 * ruler * ruler, den, 0)
        minor  == IF reg.pixels = 1 \/ diag2 = 0
                  THEN major
                  ELSE SqLen(reg.pixels * reg.pixels * ruler * ruler, den, 0)
    IN  [id       |-> i,
         major_mm |-> major,
         minor_mm |-> minor,
         area_px  |-> reg.pixels,
         r |-> corr_r, g |-> corr_g, b |-> corr_b,
         luma |-> Luma(corr_r, corr_g, corr_b)]

\* the record process_image of test_cv.py appends for dot i (0-based)
DotRecord(i, reg, tables, ruler) ==
    LET corr_b == [n |-> apply_lut(reg.mean.b, tables.b), d |-> 1]
        corr_g == [n |-> apply_lut(reg.mean.g, tables.g), d |-> 1]
        corr_r == [n |-> apply_lut(reg.mean.r, tables.r), d |-> 1]
        den    == (SCALE("dot") * 100) * (SCALE("dot") * 100)
        diag2  == reg.w * reg.w + reg.h * reg.h
        major  == IF reg.pixels = 1
                  THEN SqLen(4 * reg.pixels * ruler * ruler, den, 1)
                  ELSE SqLen(diag2 * ruler * ruler, den, 0)
        minor  == IF reg.pixels = 1 \/ diag2 = 0
                  THEN major
                  ELSE SqLen(4 * reg.pixels * reg.pixels * ruler * ruler,
                             diag2 * den, 2)
    IN  [id       |-> i,
         major_mm |-> major,
         minor_mm |-> minor,
         area_px  |-> reg.pixels,
         r |-> corr_r, g |-> corr_g, b |-> corr_b,
         luma |-> Luma(corr_r, corr_g, corr_b)]

\* the mask whose pixels cv2.mean averages for a region, as the number of
\* its pixels inside the region and outside it: the filled outer contour,
\* which for a solid region is the region (test_bean_cv.py), a filled
\* circle of radius 1 around a single pixel or the filled bounding box
\* (test_cv.py)
Mask(v, reg) ==
    IF v = "bean" THEN [inside |-> reg.pixels, outside |-> 0]
    ELSE IF reg.pixels = 1 THEN [inside |-> 1, outside |-> 4]
    ELSE [inside |-> reg.pixels, outside |-> reg.w * reg.h - reg.pixels]

\* detect_beans: contours of cv2.contourArea >= min_area_px with >= 5 points
RECURSIVE detect_beans(_, _)
detect_beans(cands, min_area_px) ==
    IF cands = << >> THEN << >>
    ELSE IF Head(cands).area < min_area_px
         THEN detect_beans(Tail(cands), min_area_px)
    ELSE IF Head(cands).npts >= 5
         THEN << Head(cands) >> \o detect_beans(Tail(cands), min_area_px)
    ELSE detect_beans(Tail(cands), min_area_px)

\* detect_all_dots: components of stats[i, cv2.CC_STAT_AREA] >= min_area
RECURSIVE KeepDots(_, _)
KeepDots(cands, min_area) ==
    IF cands = << >> THEN << >>
    ELSE IF Head(cands).pixels < min_area
         THEN KeepDots(Tail(cands), min_area)
    ELSE << Head(cands) >> \o KeepDots(Tail(cands), min_area)

detect_all_dots(cands, keep_single_pixels) ==
    KeepDots(cands, IF keep_single_pixels THEN 1 ELSE 2)

\* sizes_um = major_mm * 1000 lies in 0..2000 (pi > 3 decides p = 1)
InPlotRange(len) == len.n <= 4 * len.d * (IF len.p = 0 THEN 1 ELSE 3)

(***************************************************************************)
(* Inputs.                                                                 *)
(***************************************************************************)
\* sequences over S of length 0..n
SeqsUpTo(S, n) == UNION {[1..k -> S] : k \in 0..n}

\* ids the detector may report: the required ones and one foreign id
DetIds == RequiredIds \cup {4}

\* where a marker of a given id may be seen (its top-left corner)
PosesOf(id) ==
    CASE id = 0 -> {<< 0, 0 >>, << 1, 0 >>}
      [] id = 2 -> {<< 0, 0 >>, << 1, -1 >>}
      [] OTHER  -> {<< 0, 0 >>}

Detection(id, p) == [id |-> id, corners |-> CornersAt(p)]

AllDetections == {Detection(id, p) : id \in DetIds, p \in {<< 0, 0 >>, << 1, 0 >>, << 1, -1 >>}}

Detections == {d \in AllDetections : d.corners[1] \in PosesOf(d.id)}

\* a marker of each id where the sheet generator prints it: a 3 x 3 sheet
HomeAt(id) ==
    CASE id = 0 -> << 0, 0 >>
      [] id = 1 -> << 2, 0 >>
      [] id = 2 -> << 2, 2 >>
      [] id = 3 -> << 0, 2 >>
      [] OTHER  -> << 1, 1 >>

Home(ids) == [k \in DOMAIN ids |-> Detection(ids[k], HomeAt(ids[k]))]

\* detector outputs of whole runs: nothing found, two of four, all four,
\* all four and a foreign id, four detections of three ids
Scenes ==
    { Home(<< >>), Home(<< 0, 1 >>), Home(<< 0, 1, 2, 3 >>),
      Home(<< 3, 4, 1, 0, 2 >>), Home(<< 0, 1, 2, 2 >>) }

\* detector outputs that hold all four required ids and marker 0 twice,
\* seen at two places
DoubledScenes ==
    { << Detection(0, << 0, 0 >>), Detection(1, << 0, 0 >>),
         Detection(2, << 0, 0 >>), Detection(3, << 0, 0 >>),
         Detection(0, << 1, 0 >>) >>,
      << Detection(0, << 1, 0 >>), Detection(1, << 0, 0 >>),
         Detection(2, << 0, 0 >>), Detection(3, << 0, 0 >>),
         Detection(0, << 0, 0 >>) >> }

\* observed ramps: the printed levels themselves, a dimmer sheet, a sheet on
\* which patch 6 reads brighter than patch 5, an overexposed sheet
RampIdeal == EXPECTED_LEVELS

RampDim == [k \in 1..11 |-> (EXPECTED_LEVELS[k] * 4) \div 5]

RampSwapped ==
    [k \in 1..11 |-> IF k = 5 THEN EXPECTED_LEVELS[6]
                     ELSE IF k = 6 THEN EXPECTED_LEVELS[5]
                     ELSE EXPECTED_LEVELS[k]]

RampFlat == [k \in 1..11 |-> 255]

\* what the rectified frame shows at the 11 grayscale patches, per channel
GrayScenes ==
    { [b |-> RampIdeal, g |-> RampIdeal, r |-> RampIdeal],
      [b |-> RampDim, g |-> RampIdeal, r |-> RampSwapped] }

Bgr(b, g, r) == [b |-> b, g |-> g, r |-> r]

\* what the rectified frame shows at the cyan, magenta, yellow, black patches
CmykScenes ==
    { [c |-> Bgr(128, 128, 128), m |-> Bgr(128, 128, 128),
       y |-> Bgr(128, 128, 128), k |-> Bgr(0, 0, 0)],
      [c |-> Bgr(0, 64, 192), m |-> Bgr(0, 64, 192),
       y |-> Bgr(0, 64, 192), k |-> Bgr(0, 0, 0)] }

\* candidate regions of the thresholded stage, all of them solid: number
\* of pixels (what CC_STAT_AREA counts), cv2.contourArea of the outer
\* contour (the polygon through the centres of the border pixels, hence
\* smaller than the number of pixels), number of contour points, bounding
\* box, fitted ellipse axes, mean colour under the mask
Region(pixels, area, npts, w, h, MA, ma, mean) ==
    [pixels |-> pixels, area |-> area, npts |-> npts, w |-> w, h |-> h,
     MA |-> MA, ma |-> ma, mean |-> mean]

\* a blob of contour area 50, a blob of 50 pixels, an 11 x 6 rectangle (4
\* contour points, contour area 50), one pixel
Regions ==
    { Region(64, 50, 6, 9, 9, 7, 9, Bgr(43, 137, 90)),
      Region(50, 39, 8, 8, 8, 8, 7, Bgr(43, 137, 90)),
      Region(66, 50, 4, 11, 6, 0, 0, Bgr(200, 137, 20)),
      Region(1, 0, 1, 1, 1, 0, 0, Bgr(200, 137, 20)) }

StageScenes == SeqsUpTo(Regions, MaxRegions)

\* the photographs of whole runs, by what their rectified frame shows
FrameScenes ==
    [gray : GrayScenes, cmyk : CmykScenes, stage : StageScenes]

\* the photograph of the runs that vary the detector output
MarkerScene ==
    [gray  |-> [b |-> RampDim, g |-> RampIdeal, r |-> RampSwapped],
     cmyk  |-> [c |-> Bgr(0, 64, 192), m |-> Bgr(0, 64, 192),
                y |-> Bgr(0, 64, 192), k |-> Bgr(0, 0, 0)],
     stage |-> << Region(64, 50, 6, 9, 9, 7, 9, Bgr(43, 137, 90)),
                  Region(1, 0, 1, 1, 1, 0, 0, Bgr(200, 137, 20)) >>]

Rulers == {100, 110}

\* values drawn freely for the pairs of a build_lut call
ObsValues == {40, 100, 200}

ExpValues == {20, 137, 255}

\* nothing has been printed as an error
NoReport == [kind |-> "none"]

(***************************************************************************)
(* The state after process_image is entered.                               *)
(***************************************************************************)
InitRun ==
    /\ variant \in Variants
    /\ pc = "start"
    /\ outcome = "none"
    /\ found_map = EmptyMap
    /\ src_pts = << >>
    /\ warped = NoFrame
    /\ luts = NoLuts
    /\ wb = NoGains
    /\ beans = << >>
    /\ beans_data = << >>
    /\ csv = << >>
    /\ csv_writes = 0
    /\ fs = {}
    /\ stages = << >>
    /\ observed = << >>
    /\ expected = << >>
    /\ lut = NoLut
    /\ report = NoReport
    /\ bw = {}

Init ==
    /\ InitRun
    /\ dir_exists \in BOOLEAN
    /\ img_ok \in BOOLEAN
    /\ ruler_measured_mm \in Rulers
    /\ detections \in Scenes
    /\ scene \in FrameScenes

\* every detector output up to MaxDet, the doubled ones and those of the
\* whole runs, on one photograph
InitMarkers ==
    /\ InitRun
    /\ dir_exists = FALSE
    /\ img_ok = TRUE
    /\ ruler_measured_mm = 100
    /\ detections \in SeqsUpTo(Detections, MaxDet) \cup DoubledScenes \cup Scenes
    /\ scene = MarkerScene

(***************************************************************************)
(* process_image, step by step.                                            *)
(***************************************************************************)
Halt(why) ==
    /\ pc' = "done"
    /\ outcome' = why

\* a load step that reports the failure and goes on without returning
LoadImageNoReturn ==
    /\ pc = "start"
    /\ fs' = IF dir_exists THEN fs ELSE fs \cup {"output_dir"}
    /\ pc' = "detect"
    /\ stages' = Append(stages, "load")
    /\ outcome' = IF img_ok THEN outcome ELSE "image_load_failed"
    /\ report' = IF img_ok THEN report ELSE [kind |-> "could_not_load"]
    /\ UNCHANGED << variant, dir_exists, img_ok, ruler_measured_mm, detections,
                    scene, found_map, src_pts, warped, luts, wb, beans,
                    beans_data, csv, csv_writes, lutVars, bw >>

\* os.makedirs(output_dir) when it is missing, then cv2.imread
LoadImage ==
    /\ pc = "start"
    /\ fs' = IF dir_exists THEN fs ELSE fs \cup {"output_dir"}
    /\ IF img_ok
       THEN /\ pc' = "detect"
            /\ stages' = Append(stages, "load")
            /\ UNCHANGED outcome
       ELSE /\ Halt("image_load_failed")
            /\ UNCHANGED stages
    /\ report' = IF img_ok THEN report ELSE [kind |-> "could_not_load"]
    /\ UNCHANGED << variant, dir_exists, img_ok, ruler_measured_mm, detections,
                    scene, found_map, src_pts, warped, luts, wb, beans, beans_data,
                    csv, csv_writes, lutVars, bw >>

\* a detection step that starts the run over when it finds too few markers
DetectMarkersRetry ==
    /\ pc = "detect"
    /\ IF Len(detections) < 4
       THEN /\ pc' = "start"
            /\ report' = [kind |-> "found_only", count |-> Len(detections)]
            /\ UNCHANGED outcome
       ELSE /\ pc' = "organize"
            /\ UNCHANGED << outcome, report >>
    /\ UNCHANGED << variant, dir_exists, img_ok, ruler_measured_mm, detections,
                    scene, found_map, src_pts, warped, luts, wb, beans, beans_data,
                    csv, csv_writes, fs, stages, lutVars, bw >>

\* detectMarkers and the test "ids is None or len(ids) < 4", which prints
\* "Found only {len(ids)} markers. Need 4."
DetectMarkers ==
    /\ pc = "detect"
    /\ IF Len(detections) < 4
       THEN /\ Halt("too_few_markers")
            /\ report' = [kind |-> "found_only", count |-> Len(detections)]
       ELSE /\ pc' = "organize"
            /\ UNCHANGED << outcome, report >>
    /\ UNCHANGED << variant, dir_exists, img_ok, ruler_measured_mm, detections,
                    scene, found_map, src_pts, warped, luts, wb, beans, beans_data,
                    csv, csv_writes, fs, stages, lutVars, bw >>

\* found_map, the test "len(found_map) < 4", which prints "Missing some
\* required IDs (0-3). Found: {list(found_map.keys())}", and src_pts
OrganizeCorners ==
    /\ pc = "organize"
    /\ found_map' = Organize(detections)
    /\ IF Cardinality(DOMAIN found_map') < 4
       THEN /\ Halt("missing_ids")
            /\ report' = [kind |-> "missing_ids", found |-> DOMAIN found_map']
            /\ UNCHANGED << src_pts, stages >>
       ELSE /\ src_pts' = SrcPts(found_map')
            /\ pc' = "rectify"
            /\ stages' = Append(stages, "detect")
            /\ UNCHANGED << outcome, report >>
    /\ UNCHANGED << variant, dir_exists, img_ok, ruler_measured_mm, detections,
                    scene, warped, luts, wb, beans, beans_data, csv, csv_writes, fs,
                    lutVars, bw >>

\* getPerspectiveTransform (its result is used unchecked), warpPerspective,
\* imwrite warped.jpg; M is kept as the four correspondences it is solved
\* from
Rectify ==
    /\ pc = "rectify"
    /\ warped' = [present |-> TRUE,
                  M |-> [k \in 1..4 |-> [src |-> src_pts[k],
                                         dst |-> DstPts(variant)[k]]],
                  w |-> REAL_WIDTH_MM * SCALE(variant),
                  h |-> REAL_HEIGHT_MM * SCALE(variant),
                  gray |-> scene.gray, cmyk |-> scene.cmyk,
                  stage |-> scene.stage]
    /\ fs' = fs \cup {"warped.jpg"}
    /\ stages' = Append(stages, "rectify")
    /\ pc' = "calibrate"
    /\ UNCHANGED << variant, outcome, dir_exists, img_ok, ruler_measured_mm,
                    detections, scene, found_map, src_pts, luts, wb, beans,
                    beans_data, csv, csv_writes, lutVars, report, bw >>

\* sampling of the patches, build_lut per channel, white-balance gains
\* (test_bean_cv.py only), imwrite warped_annotated.jpg, lut_curves.png
Calibrate ==
    /\ pc = "calibrate"
    /\ luts' = BuildLuts(warped.gray)
    /\ wb' = IF variant = "bean" THEN Gains(warped.cmyk) ELSE NoGains
    /\ fs' = fs \cup {"warped_annotated.jpg", "lut_curves.png"}
    /\ stages' = Append(stages, "calibrate")
    /\ pc' = "segment"
    /\ UNCHANGED << variant, outcome, dir_exists, img_ok, ruler_measured_mm,
                    detections, scene, found_map, src_pts, warped, beans, beans_data,
                    csv, csv_writes, lutVars, report, bw >>

\* detect_beans(stage_roi, min_area_px=50) or detect_all_dots(stage_roi,
\* keep_single_pixels=True) on the regions the stage holds; test_cv.py
\* writes its debug images right after detection
Segment ==
    /\ pc = "segment"
    /\ beans' = IF variant = "bean"
                THEN detect_beans(warped.stage, 50)
                ELSE detect_all_dots(warped.stage, TRUE)
    /\ fs' = IF variant = "bean" THEN fs
             ELSE fs \cup {"stage_dog.jpg", "stage_bin_all_dots.jpg",
                           "stage_analyzed.jpg"}
    /\ stages' = Append(stages, "segment")
    /\ pc' = "measure"
    /\ UNCHANGED << variant, outcome, dir_exists, img_ok, ruler_measured_mm,
                    detections, scene, found_map, src_pts, warped, luts, wb,
                    beans_data, csv, csv_writes, lutVars, report, bw >>

\* an iteration that also rewrites the output table with what it has so far
MeasureParticleWritesTable ==
    /\ pc = "measure"
    /\ Len(beans_data) < Len(beans)
    /\ LET i == Len(beans_data)
       IN  beans_data' =
              Append(beans_data,
                     IF variant = "bean"
                     THEN BeanRecord(i, beans[i + 1], luts, wb,
                                     ruler_measured_mm)
                     ELSE DotRecord(i, beans[i + 1], luts, ruler_measured_mm))
    /\ csv' = << Header(variant) >> \o beans_data'
    /\ csv_writes' = csv_writes + 1
    /\ fs' = fs \cup {CsvName(variant)}
    /\ UNCHANGED << variant, pc, outcome, dir_exists, img_ok,
                    ruler_measured_mm, detections, scene, found_map, src_pts,
                    warped, luts, wb, beans, stages, lutVars, report, bw >>

\* an iteration that draws the particle's outline on the rectified frame
\* itself instead of on the copy vis_stage
MeasureParticleDrawsOnFrame ==
    /\ pc = "measure"
    /\ Len(beans_data) < Len(beans)
    /\ LET i == Len(beans_data)
       IN  beans_data' =
              Append(beans_data,
                     IF variant = "bean"
                     THEN BeanRecord(i, beans[i + 1], luts, wb,
                                     ruler_measured_mm)
                     ELSE DotRecord(i, beans[i + 1], luts, ruler_measured_mm))
    /\ warped' = [warped EXCEPT
                     !.stage = [k \in DOMAIN @ |->
                                  [@[k] EXCEPT !.mean = Bgr(0, 255, 0)]]]
    /\ UNCHANGED << variant, pc, outcome, dir_exists, img_ok,
                    ruler_measured_mm, detections, scene, found_map, src_pts,
                    luts, wb, beans, csv, csv_writes, fs, stages, lutVars, report, bw >>

\* an iteration whose luma is carried over from the previous iteration
MeasureParticleStaleLuma ==
    /\ pc = "measure"
    /\ Len(beans_data) < Len(beans)
    /\ LET i   == Len(beans_data)
           rec == IF variant = "bean"
                  THEN BeanRecord(i, beans[i + 1], luts, wb, ruler_measured_mm)
                  ELSE DotRecord(i, beans[i + 1], luts, ruler_measured_mm)
       IN  beans_data' =
              Append(beans_data,
                     IF i = 0 THEN rec
                     ELSE [rec EXCEPT !.luma = beans_data[i].luma])
    /\ UNCHANGED << variant, pc, outcome, dir_exists, img_ok,
                    ruler_measured_mm, detections, scene, found_map, src_pts, warped,
                    luts, wb, beans, csv, csv_writes, fs, stages, lutVars, report, bw >>

\* an iteration whose id also counts the regions the segmenter discarded
MeasureParticleCountsDiscarded ==
    /\ pc = "measure"
    /\ Len(beans_data) < Len(beans)
    /\ LET i == Len(beans_data)
           j == i + Len(warped.stage) - Len(beans)
       IN  beans_data' =
              Append(beans_data,
                     IF variant = "bean"
                     THEN BeanRecord(j, beans[i + 1], luts, wb,
                                     ruler_measured_mm)
                     ELSE DotRecord(j, beans[i + 1], luts, ruler_measured_mm))
    /\ UNCHANGED << variant, pc, outcome, dir_exists, img_ok,
                    ruler_measured_mm, detections, scene, found_map, src_pts, warped,
                    luts, wb, beans, csv, csv_writes, fs, stages, lutVars, report, bw >>

\* one iteration of the loop "for i, bean in enumerate(...)"
MeasureParticle ==
    /\ pc = "measure"
    /\ Len(beans_data) < Len(beans)
    /\ LET i == Len(beans_data)
       IN  beans_data' =
              Append(beans_data,
                     IF variant = "bean"
                     THEN BeanRecord(i, beans[i + 1], luts, wb,
                                     ruler_measured_mm)
                     ELSE DotRecord(i, beans[i + 1], luts, ruler_measured_mm))
    /\ UNCHANGED << variant, pc, outcome, dir_exists, img_ok,
                    ruler_measured_mm, detections, scene, found_map, src_pts, warped,
                    luts, wb, beans, csv, csv_writes, fs, stages, lutVars, report, bw >>

\* the loop is exhausted; test_bean_cv.py writes its debug images here
FinishMeasure ==
    /\ pc = "measure"
    /\ Len(beans_data) = Len(beans)
    /\ fs' = IF variant = "bean"
             THEN fs \cup {"stage_diff.jpg", "stage_bin.jpg",
                           "stage_analyzed.jpg"}
             ELSE fs
    /\ stages' = Append(stages, "measure")
    /\ pc' = "write"
    /\ UNCHANGED << variant, outcome, dir_exists, img_ok, ruler_measured_mm,
                    detections, scene, found_map, src_pts, warped, luts, wb, beans,
                    beans_data, csv, csv_writes, lutVars, report, bw >>

\* a table step that opens the file only when there is a record to write
WriteTableIfAny ==
    /\ pc = "write"
    /\ csv' = IF beans_data = << >> THEN csv
              ELSE << Header(variant) >> \o beans_data
    /\ csv_writes' = IF beans_data = << >> THEN csv_writes ELSE csv_writes + 1
    /\ fs' = IF beans_data = << >> THEN fs ELSE fs \cup {CsvName(variant)}
    /\ stages' = Append(stages, "write")
    /\ pc' = "plot"
    /\ UNCHANGED << variant, outcome, dir_exists, img_ok, ruler_measured_mm,
                    detections, scene, found_map, src_pts, warped, luts, wb,
                    beans, beans_data, lutVars, report, bw >>

\* open(csv_path, 'w'), writeheader, one writerow per record
WriteTable ==
    /\ pc = "write"
    /\ csv' = << Header(variant) >> \o beans_data
    /\ csv_writes' = csv_writes + 1
    /\ fs' = fs \cup {CsvName(variant)}
    /\ stages' = Append(stages, "write")
    /\ pc' = "plot"
    /\ UNCHANGED << variant, outcome, dir_exists, img_ok, ruler_measured_mm,
                    detections, scene, found_map, src_pts, warped, luts, wb, beans,
                    beans_data, lutVars, report, bw >>

\* the summary prints and the plot, drawn only when there are records (and,
\* in test_cv.py, only when some size lies in the plotted range)
Plot ==
    /\ pc = "plot"
    /\ fs' = IF beans_data = << >> THEN fs
             ELSE IF variant = "bean" THEN fs \cup {"bean_analysis.png"}
             ELSE IF \E k \in DOMAIN beans_data :
                        InPlotRange(beans_data[k].major_mm)
                  THEN fs \cup {"size_distribution.png"}
             ELSE fs
    /\ Halt("complete")
    /\ UNCHANGED << variant, dir_exists, img_ok, ruler_measured_mm, detections,
                    scene, found_map, src_pts, warped, luts, wb, beans, beans_data,
                    csv, csv_writes, stages, lutVars, report, bw >>

Next ==
    \/ LoadImage
    \/ DetectMarkers
    \/ OrganizeCorners
    \/ Rectify
    \/ Calibrate
    \/ Segment
    \/ MeasureParticle
    \/ FinishMeasure
    \/ WriteTable
    \/ Plot

Spec == Init /\ [][Next]_vars

\* the runs followed to their end: every detector output of Scenes and
\* every stage, on a photograph whose ramp reads exactly
InitFair ==
    /\ InitRun
    /\ dir_exists = TRUE
    /\ img_ok \in BOOLEAN
    /\ ruler_measured_mm = 100
    /\ detections \in Scenes
    /\ scene \in [gray : {[b |-> RampIdeal, g |-> RampIdeal, r |-> RampIdeal]},
                  cmyk : CmykScenes, stage : StageScenes]

\* process_image is sequential code on one thread: whenever a statement
\* is left to execute, it executes
\* (weak fairness of Next, its enabling condition written out: a step of
\* Next is possible exactly while pc # "done")
Fairness == <>[](pc # "done") => []<><<Next>>_vars

SpecFair == InitFair /\ [][Next]_vars /\ Fairness

\* the same run over every detector output up to MaxDet
SpecMarkers == InitMarkers /\ [][Next]_vars

(***************************************************************************)
(* build_lut on its own: a call with freely drawn pairs, or with one of    *)
(* the observed ramps against EXPECTED_LEVELS.                             *)
(***************************************************************************)
LutInputs ==
    {<< o, e >> : o \in {RampIdeal, RampDim, RampSwapped, RampFlat},
                  e \in {EXPECTED_LEVELS}}
    \cup UNION {[1..k -> ObsValues] \X [1..k -> ExpValues] : k \in 1..MaxRamp}

InitLut ==
    /\ variant = "bean"
    /\ pc = "build_lut"
    /\ outcome = "none"
    /\ dir_exists = TRUE
    /\ img_ok = TRUE
    /\ ruler_measured_mm = 100
    /\ detections = << >>
    /\ scene = MarkerScene
    /\ found_map = EmptyMap
    /\ src_pts = << >>
    /\ warped = NoFrame
    /\ luts = NoLuts
    /\ wb = NoGains
    /\ beans = << >>
    /\ beans_data = << >>
    /\ csv = << >>
    /\ csv_writes = 0
    /\ fs = {}
    /\ stages = << >>
    /\ \E io \in LutInputs : observed = io[1] /\ expected = io[2]
    /\ lut = NoLut
    /\ report = NoReport
    /\ bw = {}

CallBuildLut ==
    /\ pc = "build_lut"
    /\ lut' = build_lut(observed, expected)
    /\ pc' = "returned"
    /\ UNCHANGED << variant, outcome, dir_exists, img_ok, ruler_measured_mm,
                    detections, scene, found_map, src_pts, warped, luts, wb, beans,
                    beans_data, csv, csv_writes, fs, stages, observed,
                    expected, report, bw >>

NextLut == CallBuildLut

SpecLut == InitLut /\ [][NextLut]_vars

(***************************************************************************)
(* The white-balance gains on their own: the gains of every combination of *)
(* patch colours read at the cyan, magenta and yellow patches.             *)
(***************************************************************************)
\* mean colours a patch may read: black, the neutral target, three casts
\* and white
PatchColours ==
    { Bgr(0, 0, 0), Bgr(128, 128, 128), Bgr(0, 64, 192), Bgr(255, 192, 64),
      Bgr(255, 255, 255) }

GainInputs ==
    [c : PatchColours, m : PatchColours, y : PatchColours, k : {Bgr(0, 0, 0)}]

InitGains ==
    /\ variant = "bean"
    /\ pc = "gains"
    /\ outcome = "none"
    /\ dir_exists = TRUE
    /\ img_ok = TRUE
    /\ ruler_measured_mm = 100
    /\ detections = << >>
    /\ scene \in [gray : {[b |-> RampIdeal, g |-> RampIdeal, r |-> RampIdeal]},
                  cmyk : GainInputs, stage : {<< >>}]
    /\ found_map = EmptyMap
    /\ src_pts = << >>
    /\ warped = NoFrame
    /\ luts = NoLuts
    /\ wb = NoGains
    /\ beans = << >>
    /\ beans_data = << >>
    /\ csv = << >>
    /\ csv_writes = 0
    /\ fs = {}
    /\ stages = << >>
    /\ observed = << >>
    /\ expected = << >>
    /\ lut = NoLut
    /\ report = NoReport
    /\ bw = {}

\* neutral_obs_b/g/r and wb_factor_b/g/r from the sampled patches
CallGains ==
    /\ pc = "gains"
    /\ wb' = Gains(scene.cmyk)
    /\ pc' = "returned"
    /\ UNCHANGED << variant, outcome, dir_exists, img_ok, ruler_measured_mm,
                    detections, scene, found_map, src_pts, warped, luts, beans,
                    beans_data, csv, csv_writes, fs, stages, lutVars, report, bw >>

NextGains == CallGains

SpecGains == InitGains /\ [][NextGains]_vars

(***************************************************************************)
(* The stage crop and its circular mask, alone.                            *)
(***************************************************************************)
stage_x(v) == (STAGE_CENTER_X_MM - STAGE_RADIUS_MM) * SCALE(v)

stage_y(v) == (STAGE_CENTER_Y_MM - STAGE_RADIUS_MM) * SCALE(v)

stage_dim(v) == STAGE_RADIUS_MM * 2 * SCALE(v)

\* r = int(min(h, w) * 0.48) of the square crop
MaskRadius(v) == (Min2(stage_dim(v), stage_dim(v)) * 48) \div 100

\* (w // 2, h // 2)
MaskCentre(v) == << stage_dim(v) \div 2, stage_dim(v) \div 2 >>

SqDist(p, q) == (p[1] - q[1]) * (p[1] - q[1]) + (p[2] - q[2]) * (p[2] - q[2])

\* pixels cv2.circle(mask, centre, r, 255, -1) fills whatever its rounding
InCore(v, p) == SqDist(p, MaskCentre(v)) <= MaskRadius(v) * MaskRadius(v)

\* pixels less than one pixel beyond r, which the rasteriser may fill
InRing(v, p) ==
    /\ ~InCore(v, p)
    /\ SqDist(p, MaskCentre(v)) < (MaskRadius(v) + 1) * (MaskRadius(v) + 1)

\* no mask at all
StageMaskNone(v, fore, ring) == fore

\* bw = cv2.bitwise_and(bw, bw, mask=mask)
StageMask(v, fore, ring) ==
    {p \in fore : InCore(v, p) \/ (InRing(v, p) /\ p \in ring)}

\* foreground pixels of the thresholded crop: the centre, both sides of the
\* circle along a row and along the diagonal, the ring, and two crop corners
StagePixels(v) ==
    LET c == MaskCentre(v)
        r == MaskRadius(v)
        k == (r * 7) \div 10
        m == (r * 3) \div 4
    IN  { c,
          << c[1] + r, c[2] >>,
          << c[1] + r + 1, c[2] >>,
          << c[1] - r, c[2] - 1 >>,
          << c[1] + k, c[2] + k >>,
          << c[1] - m, c[2] - m >>,
          << 0, 0 >>,
          << stage_dim(v) - 1, stage_dim(v) - 1 >> }

InitStage ==
    /\ variant \in Variants
    /\ pc = "mask"
    /\ outcome = "none"
    /\ dir_exists = TRUE
    /\ img_ok = TRUE
    /\ ruler_measured_mm = 100
    /\ detections = << >>
    /\ scene = [gray |-> [b |-> RampIdeal, g |-> RampIdeal, r |-> RampIdeal],
                cmyk |-> << >>, stage |-> << >>]
    /\ found_map = EmptyMap
    /\ src_pts = << >>
    /\ warped = NoFrame
    /\ luts = NoLuts
    /\ wb = NoGains
    /\ beans = << >>
    /\ beans_data = << >>
    /\ csv = << >>
    /\ csv_writes = 0
    /\ fs = {}
    /\ stages = << >>
    /\ observed = << >>
    /\ expected = << >>
    /\ lut = NoLut
    /\ report = NoReport
    /\ bw \in SUBSET StagePixels(variant)

\* the circular mask of detect_beans and of detect_all_dots
CallStageMask ==
    /\ pc = "mask"
    /\ \E ring \in SUBSET {p \in bw : InRing(variant, p)} :
           bw' = StageMask(variant, bw, ring)
    /\ pc' = "masked"
    /\ UNCHANGED << variant, outcome, dir_exists, img_ok, ruler_measured_mm,
                    detections, scene, found_map, src_pts, warped, luts, wb,
                    beans, beans_data, csv, csv_writes, fs, stages, lutVars,
                    report >>

NextStage == CallStageMask

SpecStage == InitStage /\ [][NextStage]_vars

(***************************************************************************)
(* Properties.                                                             *)
(***************************************************************************)
\* the ids among the detector's output
DetectedIds == {detections[k].id : k \in DOMAIN detections}

AllRequiredDetected == RequiredIds \subseteq DetectedIds

\* the run has got as far as the perspective warp
ReachedRectify ==
    \/ pc \in {"rectify", "calibrate", "segment", "measure", "write", "plot"}
    \/ outcome = "complete"

MarkerFailure == outcome \in {"too_few_markers", "missing_ids"}

TableWritten == csv # << >> \/ csv_writes > 0 \/ CsvName(variant) \in fs

\* C1: a run whose image loads reaches rectification, and in the end writes
\* its output table, exactly when each of the ids 0, 1, 2, 3 is among the
\* detected ids, whatever other ids are detected; when a required id is
\* missing the run halts with no warped.jpg and no output table.
C1_RectifiesIffAllRequiredIds ==
    /\ (ReachedRectify \/ warped.present \/ TableWritten) => AllRequiredDetected
    /\ MarkerFailure => ~AllRequiredDetected
    /\ (pc = "done" /\ img_ok /\ AllRequiredDetected)
          => (outcome = "complete" /\ warped.present
              /\ CsvName(variant) \in fs /\ csv # << >>)
    /\ (pc = "done" /\ img_ok /\ ~AllRequiredDetected)
          => (MarkerFailure /\ ~warped.present /\ "warped.jpg" \notin fs
              /\ ~TableWritten)

\* a completed run whose detector also reported a foreign id
C1_Witness ==
    /\ outcome = "complete"
    /\ 4 \in DetectedIds
    /\ csv # << >>

\* C2 as claimed: a run whose image cannot be decoded runs no later step
\* and leaves no file-system artifact at all.
C2_LoadFailureLeavesNothing ==
    outcome = "image_load_failed" => (stages = << >> /\ fs = {})

\* C2 as amended: a run whose image cannot be decoded runs no later step
\* and writes no file; its one file-system effect is the output directory,
\* created before the image is read when it did not exist.
C2_LoadFailureWritesNoFile ==
    outcome = "image_load_failed" =>
        /\ pc = "done"
        /\ stages = << >>
        /\ fs = (IF dir_exists THEN {} ELSE {"output_dir"})
        /\ ~TableWritten
        /\ found_map = EmptyMap /\ src_pts = << >>
        /\ ~warped.present /\ ~luts.present /\ ~wb.present
        /\ beans = << >> /\ beans_data = << >>

\* an undecodable image in a run that had to create its output directory
C2_Witness == outcome = "image_load_failed" /\ "output_dir" \in fs

\* C3: when the four source points are degenerate the run aborts before
\* resampling: no rectified frame, no calibration, no segmentation and no
\* output table.
C3_DegenerateAborts ==
    (src_pts # << >> /\ Degenerate(src_pts)) =>
        /\ ~warped.present
        /\ "warped.jpg" \notin fs
        /\ ~luts.present
        /\ ~TableWritten

FullOrder ==
    << "load", "detect", "rectify", "calibrate", "segment", "measure",
       "write" >>

IsPrefix(s, t) == Len(s) <= Len(t) /\ \A k \in DOMAIN s : s[k] = t[k]

\* C4: the stages complete in the order detection, rectification,
\* calibration, segmentation, measurement, table; the table is written at
\* most once and only after every particle is measured; a finished run
\* either completed every stage and wrote the table exactly once, or
\* aborted at the image load or at marker detection with no table.
C4_CompleteOrAbortedWithoutTable ==
    /\ IsPrefix(stages, FullOrder)
    /\ csv_writes <= 1
    /\ TableWritten =>
          /\ stages = FullOrder
          /\ csv_writes = 1
          /\ Len(beans_data) = Len(beans)
          /\ csv = << Header(variant) >> \o beans_data
    /\ pc = "done" =>
          \/ /\ outcome = "complete"
             /\ stages = FullOrder
             /\ csv_writes = 1
             /\ CsvName(variant) \in fs
          \/ /\ outcome = "image_load_failed"
             /\ stages = << >>
             /\ ~TableWritten
          \/ /\ MarkerFailure
             /\ stages = << "load" >>
             /\ ~TableWritten

\* a completed run that measured at least two particles
C4_Witness ==
    /\ outcome = "complete"
    /\ Len(beans_data) >= 2
    /\ csv_writes = 1

\* the least area a region is kept at
MinArea(v) == IF v = "bean" THEN 50 ELSE 1

\* the area the segmenter of variant v compares with its minimum
MeasuredArea(v, reg) == IF v = "bean" THEN reg.area ELSE reg.pixels

NoneSurvives ==
    \A k \in DOMAIN scene.stage :
        MeasuredArea(variant, scene.stage[k]) < MinArea(variant)

\* C5: when all four markers are found and no region reaches the least
\* area, the run completes and its table is the header row alone.
C5_EmptyResultCompletes ==
    (pc = "done" /\ img_ok /\ AllRequiredDetected /\ NoneSurvives) =>
        /\ outcome = "complete"
        /\ csv_writes = 1
        /\ CsvName(variant) \in fs
        /\ csv = << Header(variant) >>

\* a completed run whose stage held regions, all of them too small
C5_Witness ==
    /\ outcome = "complete"
    /\ scene.stage # << >>
    /\ NoneSurvives
    /\ csv = << Header(variant) >>

\* index of the first detection carrying id k
FirstIndex(k) ==
    CHOOSE i \in DOMAIN detections :
        /\ detections[i].id = k
        /\ \A j \in 1..(i - 1) : detections[j].id # k

\* C6: the source point of each required id comes from the first detection
\* carrying that id, and a repeated id does not fail the run.
C6_FirstSeenWins ==
    /\ src_pts # << >> =>
          \A k \in RequiredIds :
              src_pts[k + 1] = detections[FirstIndex(k)].corners[k + 1]
    /\ (pc = "done" /\ img_ok /\ AllRequiredDetected) => outcome = "complete"

LutBuilt == DOMAIN lut # {}

\* the pairs i, j are neighbours in the order of the observed values
Neighbours(i, j) ==
    /\ observed[i] < observed[j]
    /\ ~\E k \in DOMAIN observed :
          observed[i] < observed[k] /\ observed[k] < observed[j]

\* C7: the table build_lut returns is defined on 0..255 with entries in
\* 0..255; below the least observed value it holds the expected value of a
\* pair with that observed value, above the greatest likewise, and in
\* between it holds the (truncated) linear interpolation of the two pairs
\* that are neighbours in the order of the observed values.
C7_LutIsClampedInterpolation ==
    LutBuilt =>
        LET idx == DOMAIN observed
            lo  == CHOOSE x \in {observed[i] : i \in idx} :
                       \A i \in idx : x <= observed[i]
            hi  == CHOOSE x \in {observed[i] : i \in idx} :
                       \A i \in idx : x >= observed[i]
        IN  /\ DOMAIN lut = 0..255
            /\ \A v \in 0..255 :
                  /\ lut[v] \in 0..255
                  /\ v < lo =>
                        \E i \in idx : observed[i] = lo /\ lut[v] = expected[i]
                  /\ v > hi =>
                        \E i \in idx : observed[i] = hi /\ lut[v] = expected[i]
                  /\ (lo <= v /\ v <= hi) =>
                        \/ \E i \in idx : observed[i] = v /\ lut[v] = expected[i]
                        \/ \E i, j \in idx :
                              /\ Neighbours(i, j)
                              /\ observed[i] < v /\ v < observed[j]
                              /\ lut[v] = expected[i]
                                   + ((expected[j] - expected[i])
                                        * (v - observed[i]))
                                     \div (observed[j] - observed[i])

\* a table built from three pairs given out of order, none observed at 0 or 255
C7_Witness ==
    /\ LutBuilt
    /\ Len(observed) = 3
    /\ observed[1] > observed[2]
    /\ observed[2] < observed[3]
    /\ lut[0] = expected[2]

\* C8: whatever the observed ramp samples, the table build_lut returns for
\* them is monotone: lut[a] <= lut[b] whenever a <= b.
C8_LutMonotone ==
    (LutBuilt /\ expected = EXPECTED_LEVELS) =>
        \A a \in 0..254 : lut[a] <= lut[a + 1]

\* C9: when the observed ramp equals EXPECTED_LEVELS element for element,
\* the table maps every level of EXPECTED_LEVELS to itself.
C9_IdentityAtSampledLevels ==
    (LutBuilt /\ observed = EXPECTED_LEVELS /\ expected = EXPECTED_LEVELS) =>
        \A k \in DOMAIN EXPECTED_LEVELS :
            lut[EXPECTED_LEVELS[k]] = EXPECTED_LEVELS[k]

\* the table built from the printed levels observed exactly
C9_Witness ==
    /\ LutBuilt
    /\ observed = EXPECTED_LEVELS
    /\ expected = EXPECTED_LEVELS
    /\ lut[20] = 20 /\ lut[255] = 255

\* C10: in both variants every record's colour is the tone-curve lookup of
\* the raw mean colour multiplied by that channel's white-balance gain, and
\* its luma is 0.299 R + 0.587 G + 0.114 B of those calibrated channels.
C10_ToneCurveThenGainThenLuma ==
    \A k \in DOMAIN beans_data :
        LET reg   == beans[k]
            rec   == beans_data[k]
            gains == Gains(warped.cmyk)
        IN  /\ rec.b = ScaleClip(apply_lut(reg.mean.b, luts.b), gains.b)
            /\ rec.g = ScaleClip(apply_lut(reg.mean.g, luts.g), gains.g)
            /\ rec.r = ScaleClip(apply_lut(reg.mean.r, luts.r), gains.r)
            /\ rec.luma = Luma(rec.r, rec.g, rec.b)

Channels == {"b", "g", "r"}

\* c_obs[ch] + m_obs[ch] + y_obs[ch] of the photograph
PatchSum(ch) == scene.cmyk.c[ch] + scene.cmyk.m[ch] + scene.cmyk.y[ch]

One == [n |-> 1, d |-> 1]

\* C11: when the mean of the cyan, magenta and yellow samples of a channel
\* is 128 the gain of that channel is 1; whenever the mean is positive the
\* gain is 128 divided by the mean (gain * sum = 128 * 3).
C11_GainIs128OverMean ==
    wb.present =>
        \A ch \in Channels :
            /\ PatchSum(ch) = 3 * 128 => wb[ch] = One
            /\ PatchSum(ch) > 0 => wb[ch].n * PatchSum(ch) = 128 * 3 * wb[ch].d

\* gains of three different patches whose green mean is 128 and whose blue
\* mean is not
C11_Witness ==
    /\ wb.present
    /\ scene.cmyk.c.g # scene.cmyk.m.g
    /\ PatchSum("g") = 3 * 128
    /\ wb.g = One
    /\ PatchSum("b") > 0
    /\ wb.b # One

\* C12: a channel whose neutral estimate is zero gets the gain 1, and every
\* gain is a strictly positive number.
C12_GainGuardedAndPositive ==
    wb.present =>
        \A ch \in Channels :
            /\ PatchSum(ch) = 0 => wb[ch] = One
            /\ wb[ch].n > 0
            /\ wb[ch].d > 0

\* gains of a photograph whose three patches read no blue at all
C12_Witness ==
    /\ wb.present
    /\ PatchSum("b") = 0
    /\ wb.b = One
    /\ PatchSum("r") > 0
    /\ wb.r # One

\* the run has segmented the stage
Segmented == warped.present /\ pc \in {"measure", "write", "plot", "done"}

\* the regions the segmenter kept, as a set
Kept == {beans[k] : k \in DOMAIN beans}

\* C13: in both modes a region whose pixel area is at the minimum (50 in
\* coarse-blob mode, 1 in fine-dot mode keeping single pixels, 2 without)
\* or above is retained, a smaller one is discarded, and no record comes
\* from a region below the minimum.
C13_AreaBoundary ==
    Segmented =>
        /\ \A k \in DOMAIN warped.stage :
              LET reg == warped.stage[k]
              IN  /\ reg.pixels >= MinArea(variant) => reg \in Kept
                  /\ reg.pixels < MinArea(variant) => reg \notin Kept
        /\ Len(beans_data) <= Len(beans)
        /\ \A reg \in Kept : reg.pixels >= MinArea(variant)
        /\ \A k \in DOMAIN warped.stage :
              LET reg  == warped.stage[k]
                  dots == detect_all_dots(warped.stage, FALSE)
              IN  (reg.pixels >= 2) <=> (\E j \in DOMAIN dots : dots[j] = reg)

\* the regions whose measured area reaches the minimum, in stage order
Survivors ==
    SelectSeq(warped.stage,
              LAMBDA reg : MeasuredArea(variant, reg) >= MinArea(variant))

\* two lengths, each kept as its square n / (d * pi^p), are equal
SameLength(a, b) == a.p = b.p /\ Frac(a.n, a.d) = Frac(b.n, b.d)

\* pixel length L (given as L^2 = n / (d * pi^p)) in mm under ruler r:
\* L / SCALE * (r / 100)
InMm(n, d, p, v, r) ==
    SqLen(n * r * r, d * (SCALE(v) * 100) * (SCALE(v) * 100), p)

\* C14: a completed run holds exactly one record per region whose area
\* reaches the minimum, in order; a region with at least 5 contour points
\* is measured by its fitted ellipse, a region with fewer by its
\* bounding-box diagonal and its area.
C14_OneRecordPerSurvivor ==
    outcome = "complete" =>
        /\ Len(beans_data) = Len(Survivors)
        /\ \A k \in DOMAIN beans_data :
              LET reg   == Survivors[k]
                  rec   == beans_data[k]
                  diag2 == reg.w * reg.w + reg.h * reg.h
              IN  IF reg.npts >= 5
                  THEN /\ SameLength(rec.major_mm,
                                     InMm(Max2(reg.MA, reg.ma)
                                            * Max2(reg.MA, reg.ma), 1, 0,
                                          variant, ruler_measured_mm))
                       /\ SameLength(rec.minor_mm,
                                     InMm(Min2(reg.MA, reg.ma)
                                            * Min2(reg.MA, reg.ma), 1, 0,
                                          variant, ruler_measured_mm))
                  ELSE \/ SameLength(rec.major_mm,
                                     InMm(diag2, 1, 0, variant,
                                          ruler_measured_mm))
                       \/ SameLength(rec.major_mm,
                                     InMm(4 * reg.pixels, 1, 1, variant,
                                          ruler_measured_mm))

\* C15: in both modes the pixels averaged for a particle's raw mean colour
\* are exactly the pixels of its connected region: all of them, and none
\* outside it.
C15_MaskIsExactlyTheRegion ==
    \A k \in DOMAIN beans_data :
        /\ Mask(variant, beans[k]).inside = beans[k].pixels
        /\ Mask(variant, beans[k]).outside = 0

\* the axis lengths of a kept region in rectified pixels, as squares: the
\* fitted ellipse's axes (test_bean_cv.py); the diameter of the disc of the
\* dot's area, or the bounding-box diagonal and area / (pi * diagonal / 2)
\* (test_cv.py)
PixelLengths(v, reg) ==
    LET diag2 == reg.w * reg.w + reg.h * reg.h
    IN  IF v = "bean"
        THEN [major |-> SqLen(Max2(reg.MA, reg.ma) * Max2(reg.MA, reg.ma), 1, 0),
              minor |-> SqLen(Min2(reg.MA, reg.ma) * Min2(reg.MA, reg.ma), 1, 0)]
        ELSE IF reg.pixels = 1
        THEN [major |-> SqLen(4 * reg.pixels, 1, 1),
              minor |-> SqLen(4 * reg.pixels, 1, 1)]
        ELSE [major |-> SqLen(diag2, 1, 0),
              minor |-> SqLen(4 * reg.pixels * reg.pixels, diag2, 2)]

\* the calibrated colour of a kept region, which no ruler enters
ColourOf(v, reg) ==
    LET raw(ch)  == [n |-> apply_lut(reg.mean[ch], luts[ch]), d |-> 1]
        corr(ch) == IF v = "bean"
                    THEN ScaleClip(apply_lut(reg.mean[ch], luts[ch]), wb[ch])
                    ELSE raw(ch)
    IN  [b |-> corr("b"), g |-> corr("g"), r |-> corr("r")]

\* C16: every reported major and minor axis length is the region's pixel
\* length / SCALE * (ruler_measured_mm / 100), and the ruler enters nothing
\* else in the record: id, colour and luma are what they are for any ruler.
C16_LengthsScaleWithRuler ==
    \A k \in DOMAIN beans_data :
        LET reg == beans[k]
            rec == beans_data[k]
            pl  == PixelLengths(variant, reg)
            col == ColourOf(variant, reg)
        IN  /\ SameLength(rec.major_mm,
                          InMm(pl.major.n, pl.major.d, pl.major.p, variant,
                               ruler_measured_mm))
            /\ SameLength(rec.minor_mm,
                          InMm(pl.minor.n, pl.minor.d, pl.minor.p, variant,
                               ruler_measured_mm))
            /\ rec.id = k - 1
            /\ rec.r = col.r /\ rec.g = col.g /\ rec.b = col.b
            /\ rec.luma = Luma(col.r, col.g, col.b)

\* a completed coarse-blob run under a ruler measured at 110 mm whose first
\* record holds lengths 1.1 times the pixel length / SCALE
C16_Witness ==
    /\ outcome = "complete"
    /\ variant = "bean"
    /\ ruler_measured_mm = 110
    /\ beans_data # << >>
    /\ SameLength(beans_data[1].major_mm,
                  SqLen(121 * Max2(beans[1].MA, beans[1].ma)
                            * Max2(beans[1].MA, beans[1].ma),
                        100 * SCALE("bean") * SCALE("bean"), 0))

\* every detection shows its marker where the sheet generator prints it
SeenAsPrinted ==
    \A i \in DOMAIN detections :
        detections[i] = Detection(detections[i].id, HomeAt(detections[i].id))

\* C17: the rectified frame is 180 * SCALE by 250 * SCALE; for k = 0..3 the
\* source point paired with canonical corner k of (0,0), (W,0), (W,H),
\* (0,H) is corner k of a detected marker with id k; when the source
\* quadrilateral is not degenerate no source point is paired with two
\* canonical corners; and on a sheet seen as printed (id 0 top-left, 1
\* top-right, 2 bottom-right, 3 bottom-left) the source points are the
\* sheet's outer corners in that order.
C17_CornerKOfMarkerK ==
    warped.present =>
        LET W == 180 * SCALE(variant)
            H == 250 * SCALE(variant)
        IN  /\ warped.w = W /\ warped.h = H
            /\ \A k \in 0..3 :
                  /\ warped.M[k + 1].src = found_map[k][k + 1]
                  /\ \E i \in DOMAIN detections :
                        /\ detections[i].id = k
                        /\ detections[i].corners[k + 1] = warped.M[k + 1].src
                  /\ warped.M[k + 1].dst =
                        << IF k \in {1, 2} THEN W ELSE 0,
                           IF k \in {2, 3} THEN H ELSE 0 >>
            /\ ~Degenerate(src_pts) =>
                  \A j, k \in 1..4 :
                      warped.M[j].src = warped.M[k].src => j = k
            /\ SeenAsPrinted =>
                  src_pts = << << 0, 0 >>, << 3, 0 >>, << 3, 3 >>, << 0, 3 >> >>

\* a sheet seen as printed, detected in another order together with a
\* foreign marker, just rectified
C17_Witness ==
    /\ pc = "calibrate"
    /\ warped.present
    /\ SeenAsPrinted
    /\ Len(detections) = 5
    /\ detections[1].id = 3
    /\ ~Degenerate(src_pts)
    /\ warped.M[3] = [src |-> << 3, 3 >>,
                      dst |-> << warped.w, warped.h >>]

\* C18: the geometry a rectified frame is sampled with (the 11 grayscale
\* sampling centres, the 4 CMYK sampling centres, the stage centre and
\* radius, the marker size, the frame's size in mm) equals the centres and
\* sizes of the elements draw_calibration_sheet prints.
C18_GeometryMatchesGenerator ==
    warped.present =>
        /\ \A i \in 0..10 :
              PrintedGrayCentre(i)
                = << GRAY_PATCH_XS_MM[i], GRAY_PATCH_Y_MM * mm >>
        /\ \A i \in 0..3 :
              PrintedCmykCentre(i)
                = << CMYK_PATCH_XS_MM[i] * mm, CMYK_PATCH_Y_MM * mm >>
        /\ FromTopLeft(stage_circle.x, stage_circle.y)
              = << STAGE_CENTER_X_MM * mm, STAGE_CENTER_Y_MM * mm >>
        /\ stage_circle.r = STAGE_RADIUS_MM * mm
        /\ marker_size = MARKER_SIZE_MM * mm
        /\ calib_w = (warped.w * mm) \div SCALE(variant)
        /\ calib_h = (warped.h * mm) \div SCALE(variant)

\* C19: once the rectified frame, the tone-curve tables and the
\* white-balance gains exist, no step of the run changes them.
C19_CalibrationStateIsNeverChanged ==
    [][/\ warped.present => warped' = warped
       /\ luts.present => luts' = luts
       /\ wb.present => wb' = wb]_vars

\* the second particle of a coarse-blob run has just been measured against
\* the frame, the tables and the gains the first was measured against
C19_Witness ==
    /\ pc = "measure"
    /\ Len(beans_data) = 2
    /\ warped.present /\ luts.present /\ wb.present
    /\ warped.stage = scene.stage
    /\ luts = BuildLuts(scene.gray)

\* record rec is what particle k (1-based) measures to on its own: from its
\* own region, the tables, the gains, SCALE and the ruler
MeasuredAlone(rec, k) ==
    LET pl  == PixelLengths(variant, beans[k])
        col == ColourOf(variant, beans[k])
    IN  /\ rec.id = k - 1
        /\ SameLength(rec.major_mm,
                      InMm(pl.major.n, pl.major.d, pl.major.p, variant,
                           ruler_measured_mm))
        /\ SameLength(rec.minor_mm,
                      InMm(pl.minor.n, pl.minor.d, pl.minor.p, variant,
                           ruler_measured_mm))
        /\ rec.r = col.r /\ rec.g = col.g /\ rec.b = col.b
        /\ rec.luma = Luma(col.r, col.g, col.b)

C21_ReportNamesFoundIds ==
    MarkerFailure =>
        /\ report.kind = "missing_ids"
        /\ report.found = DetectedIds \cap RequiredIds

\* the crop pixel p in the coordinates of the rectified frame
OnSheet(v, p) == << stage_x(v) + p[1], stage_y(v) + p[2] >>

\* C22: every foreground pixel left by the circular mask lies in the disc
\* of radius int(0.48 * min(h, w)) about the crop centre as cv2.circle fills
\* it, and so within 50 mm of the stage centre on the sheet, in both modes.
C22_ForegroundInsideStage ==
    pc = "masked" =>
        \A p \in bw :
            /\ InCore(variant, p) \/ InRing(variant, p)
            /\ SqDist(OnSheet(variant, p),
                      << STAGE_CENTER_X_MM * SCALE(variant),
                         STAGE_CENTER_Y_MM * SCALE(variant) >>)
                   <= (STAGE_RADIUS_MM * SCALE(variant))
                          * (STAGE_RADIUS_MM * SCALE(variant))

C22_Witness ==
    /\ pc = "masked"
    /\ variant = "dot"
    /\ Cardinality(bw) = 4
    /\ \E p \in bw : InRing(variant, p)

\* a fraction n / d within the closed range [0, 255]
InIntensityRange(f) == f.n >= 0 /\ f.d > 0 /\ f.n <= 255 * f.d

\* C23: r, g, b and luma of every record measured, and of every row of
\* the table, lie in [0, 255], white-balance gains above 1 included.
C23_ChannelsAndLumaInRange ==
    /\ \A k \in DOMAIN beans_data :
           /\ InIntensityRange(beans_data[k].r)
           /\ InIntensityRange(beans_data[k].g)
           /\ InIntensityRange(beans_data[k].b)
           /\ InIntensityRange(beans_data[k].luma)
    /\ \A k \in 2..Len(csv) :
           /\ InIntensityRange(csv[k].r)
           /\ InIntensityRange(csv[k].g)
           /\ InIntensityRange(csv[k].b)
           /\ InIntensityRange(csv[k].luma)

\* a record whose green channel the clip cut back to 255 under a gain of 2
C23_Witness ==
    /\ variant = "bean"
    /\ wb.present
    /\ wb.g = [n |-> 2, d |-> 1]
    /\ \E k \in DOMAIN beans_data :
           /\ beans_data[k].g = [n |-> 255, d |-> 1]
           /\ apply_lut(beans[k].mean.g, luts.g) * 2 > 255

\* largest bounding-box side of the components enumerated for C24
MaxBox == 3

\* a lower bound of pi^k, k <= 2
ThreeTo(k) == IF k = 0 THEN 1 ELSE IF k = 1 THEN 3 ELSE 9

\* length a is surely at least length b (each kept as its square
\* n / (d * pi^p), a.p <= b.p), using pi > 3 only
LenGeq(a, b) ==
    LET x == Frac(a.n, a.d)
        y == Frac(b.n, b.d)
    IN  /\ a.p <= b.p
        /\ IF y.n = 0 THEN x.n >= 0
           ELSE LET p == Frac(x.n * ThreeTo(b.p - a.p), y.n)
                    q == Frac(x.d, y.d)
                IN  p.n * q.d >= q.n * p.d

\* the square of a length that is not negative
NonNegative(a) == a.n >= 0 /\ a.d > 0

\* the components of a w x h bounding box, w, h <= MaxBox, of every area
BoxComponents ==
    { Region(a, a, 1, bx[1], bx[2], 0, 0, Bgr(0, 0, 0)) :
        a \in 1..(MaxBox * MaxBox), bx \in (1..MaxBox) \X (1..MaxBox) }

\* C24: major_mm >= minor_mm >= 0 in every record measured, in both
\* variants, and in the dot record of every component of between 1 and
\* w * h pixels in a w x h bounding box.
C24_MajorAtLeastMinor ==
    /\ \A k \in DOMAIN beans_data :
           /\ LenGeq(beans_data[k].major_mm, beans_data[k].minor_mm)
           /\ NonNegative(beans_data[k].minor_mm)
    /\ (variant = "dot" /\ pc = "measure") =>
           \A reg \in BoxComponents :
               reg.pixels <= reg.w * reg.h =>
                   LET rec == DotRecord(0, reg, luts, ruler_measured_mm)
                   IN  /\ LenGeq(rec.major_mm, rec.minor_mm)
                       /\ NonNegative(rec.minor_mm)

\* a dot record of a component of several pixels, and a bean record whose
\* fitted axes came minor first
C24_Witness ==
    /\ pc = "measure"
    /\ \E k \in DOMAIN beans_data :
           \/ variant = "dot" /\ beans[k].pixels > 1
                 /\ ~SameLength(beans_data[k].major_mm, beans_data[k].minor_mm)
           \/ variant = "bean" /\ beans[k].MA < beans[k].ma

\* C25: the ids of the records, and of the rows of the table under its
\* header, are 0, 1, ..., n-1 in order, whatever the segmenter discarded.
C25_IdsCountTheRows ==
    /\ \A k \in DOMAIN beans_data : beans_data[k].id = k - 1
    /\ \A k \in 2..Len(csv) : csv[k].id = k - 2

\* a table of one row whose region came second, after a discarded one
C25_Witness ==
    /\ outcome = "complete"
    /\ Len(csv) = 2
    /\ Len(warped.stage) = 2
    /\ warped.stage[1] # warped.stage[2]
    /\ beans = << warped.stage[2] >>
    /\ csv[2].id = 0

\* radius_px = int(1.5 * SCALE)
radius_px(v) == (15 * SCALE(v)) \div 10

\* a radius of half the 12 mm patch
CmykRadiusHalfPatch(v) == 6 * SCALE(v)

\* cmyk_radius_px = int(3 * SCALE)
cmyk_radius_px(v) == 3 * SCALE(v)

\* the slice [y - r : y + r, x - r : x + r] about pixel (x, y): columns
\* x0 .. x1 - 1 and rows y0 .. y1 - 1
Window(x, y, r) == [x0 |-> x - r, x1 |-> x + r, y0 |-> y - r, y1 |-> y + r]

\* roi of grayscale patch i: patch_x_px = int(x_mm * SCALE),
\* patch_y_px = int(GRAY_PATCH_Y_MM * SCALE)
GrayWindow(v, i) ==
    Window((GRAY_PATCH_XS_MM[i] * SCALE(v)) \div mm,
           GRAY_PATCH_Y_MM * SCALE(v), radius_px(v))

\* roi of CMYK patch i
CmykWindow(v, i) ==
    Window(CMYK_PATCH_XS_MM[i] * SCALE(v), CMYK_PATCH_Y_MM * SCALE(v),
           cmyk_radius_px(v))

\* stage_roi = warped[stage_y : stage_y + stage_dim,
\*                    stage_x : stage_x + stage_dim]
StageCrop(v) ==
    [x0 |-> stage_x(v), x1 |-> stage_x(v) + stage_dim(v),
     y0 |-> stage_y(v), y1 |-> stage_y(v) + stage_dim(v)]

\* slice box selects only pixels of a frame of width w and height h, with
\* no index below 0 (which numpy would count from the far edge)
InsideFrame(box, w, h) ==
    /\ 0 <= box.x0 /\ box.x0 < box.x1 /\ box.x1 <= w
    /\ 0 <= box.y0 /\ box.y0 < box.y1 /\ box.y1 <= h

\* the printed square of the given side about the given centre (both in
\* units of 1/mm millimetre from the top-left corner) holds every pixel of
\* box at scale v
InsidePatch(box, centre, side, v) ==
    /\ (centre[1] - side \div 2) * SCALE(v) <= box.x0 * mm
    /\ box.x1 * mm <= (centre[1] + side \div 2) * SCALE(v)
    /\ (centre[2] - side \div 2) * SCALE(v) <= box.y0 * mm
    /\ box.y1 * mm <= (centre[2] + side \div 2) * SCALE(v)

EachStageAtMostOnce ==
    /\ \A j, k \in DOMAIN stages : stages[j] = stages[k] => j = k
    /\ csv_writes <= 1

\* the run has ended in one of its three kinds of terminal state
Terminated ==
    /\ pc = "done"
    /\ \/ outcome = "image_load_failed"
       \/ MarkerFailure
       \/ outcome = "complete"

\* C27: every run of process_image ends, in an image-load failure, a
\* marker failure or a completion; on the way no stage is gone through
\* twice, and nothing runs once the run has ended.
C27_TerminatesInOnePass ==
    /\ <>Terminated
    /\ []EachStageAtMostOnce
    /\ [][pc # "done"]_vars

\* a completed fine-dot run that went through its seven stages, the
\* measurement loop twice
C27_Witness ==
    /\ Terminated
    /\ outcome = "complete"
    /\ variant = "dot"
    /\ Len(stages) = 7
    /\ Len(beans_data) = 2
    /\ EachStageAtMostOnce

====
